---- MODULE Spec2Model ----
(***************************************************************************)
(* Observability event pipeline of saleor (saleor/webhook/observability):  *)
(* JSON-aware text truncation, size-bounded payload builders, the bounded  *)
(* per-event-type buffer and the request/operation capture scopes.         *)
(*                                                                         *)
(* Strings are sequences of Unicode code points (Python str indexing is by *)
(* code point).  The module holds several specifications over one set of   *)
(* variables; each specification leaves the variables of the other parts   *)
(* at their idle values.                                                   *)
(***************************************************************************)
EXTENDS Integers, Sequences, FiniteSets, TLC

VARIABLES
    \* ---- JsonTruncText.truncate -------------------------------------
    t_s,        \* input string
    t_limit,    \* input limit (may be negative)
    t_ascii,    \* ensure_ascii flag
    t_out,      \* returned JsonTruncText, or NoValue before the call
    t_pc,       \* "call" before truncate ran, "done" after it returned,
                \* "raised" after it raised
    \* ---- generate_api_call_payload ----------------------------------
    a_ops,      \* gql_operations: sequence of GQLOperationResult
    a_base,     \* len(base_dump): the envelope with "operations": []
    a_limit,    \* bytes_limit
    a_out,      \* outcome of the call
    a_pc,
    \* ---- generate_truncated_event_delivery_attempt_payload ----------
    d_response, \* attempt.response or ""
    d_delivery, \* attempt.delivery is not None
    d_payload,  \* delivery.payload.payload, or None
    d_base,     \* len(initial_dump): the envelope with placeholder bodies
    d_limit,    \* bytes_limit
    d_out,      \* outcome of the call
    d_pc,
    \* ---- broker, settings and buffer handlers ------------------------
    queues,         \* broker state: queue name -> sequence of messages
    broker_up,      \* the broker accepts connections
    cfg_batch,      \* settings.OBSERVABILITY_BUFFER_BATCH
    cfg_max_length, \* settings.OBSERVABILITY_BUFFER_SIZE_LIMIT
    next_id,        \* number of the next event payload to be produced
    b_last,         \* the handler call that the last step ended, and its
                    \* outcome; NoCall when that step ended no call
    \* ---- concurrent producers and drains ------------------------------
    p_pc,           \* producer -> "idle" | "checked" (between len() and put())
    p_et,           \* producer -> event type of the put in flight
    c_pc,           \* consumer -> "idle" | "draining" | "returned"
    c_et,           \* consumer -> event type being drained
    c_events,       \* consumer -> events collected by get_events so far
    c_iter,         \* consumer -> iterations of the get_events loop left
    c_unacked,      \* consumer -> messages delivered on its channel, not acked
    c_before,       \* consumer -> the queues when its get_events was called
    ret_count,      \* event id -> number of get_events calls that returned it
    foreign,        \* a drain returned an event put for another event type
    \* ---- capture: settings, context variables, scopes ----------------
    set_active,      \* settings.OBSERVABILITY_ACTIVE
    set_report_all,  \* settings.OBSERVABILITY_REPORT_ALL_API_CALLS
    set_max_payload, \* settings.OBSERVABILITY_MAX_PAYLOAD_SIZE
    webhooks,        \* event types for which _get_webhooks_for_event(..).exists()
    api_var,         \* _API_CALL_CONTEXT: None or an ApiCallResponse
    gql_var,         \* _GQL_OPERATION_CONTEXT: None or a GQLOperationResult
    r_pc,            \* "out" | "in": inside the body of api_call_context
    g_pc,            \* "out" | "in": inside the body of gql_operation_context
    r_req,           \* the request being dispatched
    next_req,        \* number of the next request
    next_op,         \* number of the next operation scope
    g_done,          \* records of the operation scopes that exited normally
                     \* inside the current request scope, in exit order
    cap_last         \* the last capture step and its outcome

truncVars == <<t_s, t_limit, t_ascii, t_out, t_pc>>
apiVars == <<a_ops, a_base, a_limit, a_out, a_pc>>
attVars == <<d_response, d_delivery, d_payload, d_base, d_limit, d_out, d_pc>>
bufVars == <<queues, broker_up, cfg_batch, cfg_max_length, next_id, b_last>>
concVars == <<p_pc, p_et, c_pc, c_et, c_events, c_iter, c_unacked, c_before,
              ret_count, foreign>>
capVars == <<set_active, set_report_all, set_max_payload, webhooks, api_var, gql_var,
             r_pc, g_pc, r_req, next_req, next_op, g_done, cap_last>>
vars == <<truncVars, apiVars, attVars, bufVars, concVars, capVars>>

NoValue == [none |-> TRUE]

\* ------------------------------------------------------------------
\* Bounds of the model
\* ------------------------------------------------------------------
MaxStrLen == 3
MaxLimit == 13
MaxOps == 2
MaxExtra == 33
MaxBodyBudget == 9
MaxPuts == 3
MaxBatch == 2
MaxQueue == 2
NumProducers == 2
NumConsumers == 2
MaxRequests == 2
MaxOpScopes == 2

\* The element of a one-element set.  Only({ e : x \in {v} }) is e with the
\* local variable x assigned v: v is computed once, when it is assigned, and
\* e reads it as often as it mentions x.
Only(S) == CHOOSE y \in S : TRUE

\* ------------------------------------------------------------------
\* Characters
\* ------------------------------------------------------------------
\* 'a', '\n', '\x1f', '"', U+00F3, the lone surrogate U+D800, U+10400
Alphabet == {97, 10, 31, 34, 243, 55296, 66560}

RECURSIVE StringsUpTo(_, _)
StringsUpTo(A, n) ==
    IF n = 0 THEN {<<>>}
    ELSE LET shorter == StringsUpTo(A, n - 1)
         IN  shorter \cup {Append(w, c) : w \in {x \in shorter : Len(x) = n - 1}, c \in A}

Max(a, b) == IF a >= b THEN a ELSE b
Min(a, b) == IF a <= b THEN a ELSE b

\* s[:n] of Python for n >= 0
Prefix(s, n) == SubSeq(s, 1, Min(n, Len(s)))

\* json.encoder.ESCAPE_ASCII = ([\\"]|[^\ -~]): does the pattern match c
EscapeAsciiMatch(c) == c = 92 \/ c = 34 \/ c < 32 \/ c > 126

\* json.encoder.ESCAPE_DCT: \\ " \b \f \n \r \t map to two characters,
\* every other code point below 0x20 to \u00XX
InEscapeDct(c) == c = 92 \/ c = 34 \/ c < 32
EscapeDctLen(c) == IF c \in {92, 34, 8, 12, 10, 13, 9} THEN 2 ELSE 6

\* The value that stands for a raised UnicodeEncodeError where a length is
\* expected (no length is negative)
UnicodeEncodeError == -1

\* len(char.encode()) : UTF-8 length of one code point; str.encode() raises
\* UnicodeEncodeError for a surrogate (U+D800..U+DFFF)
Utf8Len(c) ==
    IF c \in 55296..57343 THEN UnicodeEncodeError
    ELSE IF c < 128 THEN 1 ELSE IF c < 2048 THEN 2 ELSE IF c < 65536 THEN 3 ELSE 4

\* Variant of json_char_len: every ESCAPE_DCT character counted as \u00XX
json_char_len_wide(c, ensure_ascii) ==
    IF InEscapeDct(c) THEN 6
    ELSE IF ensure_ascii THEN (IF c < 65536 THEN 6 ELSE 12)
    ELSE Utf8Len(c)

\* JsonTruncText.json_char_len: the ESCAPE_DCT entry, otherwise \uXXXX or a
\* surrogate pair with ensure_ascii, the UTF-8 encoding without (for a lone
\* surrogate the encoding raises, and so does json_char_len)
json_char_len(c, ensure_ascii) ==
    IF InEscapeDct(c) THEN EscapeDctLen(c)
    ELSE IF ensure_ascii THEN (IF c < 65536 THEN 6 ELSE 12)
    ELSE Utf8Len(c)

\* JsonTruncText(text, truncated, added_bytes, ensure_ascii)
JsonTruncText(text, truncated, added_bytes, ensure_ascii) ==
    [text |-> text, truncated |-> truncated,
     added_bytes |-> added_bytes, ensure_ascii |-> ensure_ascii]

\* Variant of byte_size: the number of characters of the text
byte_size_chars(t) == Len(t.text)

\* JsonTruncText.byte_size
byte_size(t) == Len(t.text) + t.added_bytes

\* truncate left by the exception that json_char_len raised
Raised(exception) == [raised |-> exception]

\* The for loop of truncate over the matches of ESCAPE_ASCII in s (already
\* cut to limit code points); i is the 1-based position being examined, so
\* a match at i has span (start, end) = (i - 1, i).  An exception of
\* json_char_len leaves the loop and truncate.
RECURSIVE TruncateScan(_, _, _, _, _, _)
TruncateScan(s, s_init_len, limit, ensure_ascii, i, added_bytes) ==
    IF i > Len(s)
    THEN JsonTruncText(s, Len(s) < s_init_len, added_bytes, ensure_ascii)
    ELSE IF ~EscapeAsciiMatch(s[i])
    THEN TruncateScan(s, s_init_len, limit, ensure_ascii, i + 1, added_bytes)
    ELSE IF json_char_len(s[i], ensure_ascii) = UnicodeEncodeError
    THEN Raised("UnicodeEncodeError")
    ELSE LET start  == i - 1
             end    == i
             markup == json_char_len(s[i], ensure_ascii) - 1
             added  == added_bytes + markup
         IN  IF end + added > limit
             THEN JsonTruncText(Prefix(s, start), TRUE, added - markup, ensure_ascii)
             ELSE IF end + added = limit
             THEN JsonTruncText(Prefix(s, end), end < s_init_len, added, ensure_ascii)
             ELSE TruncateScan(s, s_init_len, limit, ensure_ascii, i + 1, added)

\* Variant of truncate: the text is cut but never flagged as truncated
truncate_unflagged(s, limit, ensure_ascii) ==
    LET lim == Max(limit, 0)
        r == TruncateScan(Prefix(s, lim), Len(s), lim, ensure_ascii, 1, 0)
    IN  IF "raised" \in DOMAIN r THEN r ELSE [r EXCEPT !.truncated = FALSE]

\* JsonTruncText.truncate
truncate(s, limit, ensure_ascii) ==
    LET lim == Max(limit, 0)
    IN  TruncateScan(Prefix(s, lim), Len(s), lim, ensure_ascii, 1, 0)

\* ------------------------------------------------------------------
\* JSON serialisation lengths (json.dumps with CustomJsonEncoder)
\* ------------------------------------------------------------------
None == [some |-> FALSE, v |-> <<>>]
Some(x) == [some |-> TRUE, v |-> x]

\* Number of characters json.dumps writes for the content of a string:
\* with ensure_ascii every ESCAPE_ASCII match becomes its ESCAPE_DCT entry,
\* \uXXXX or a surrogate pair; without it only the ESCAPE_DCT characters
\* are replaced and the rest is written as UTF-8.
RECURSIVE JsonEscapedLen(_, _)
JsonEscapedLen(text, ensure_ascii) ==
    IF text = <<>> THEN 0
    ELSE LET c == Head(text)
             n == IF InEscapeDct(c) THEN EscapeDctLen(c)
                  ELSE IF ensure_ascii /\ EscapeAsciiMatch(c)
                       THEN (IF c < 65536 THEN 6 ELSE 12)
                  ELSE IF ensure_ascii THEN 1
                  ELSE Utf8Len(c)
         IN  n + JsonEscapedLen(Tail(text), ensure_ascii)

\* len(json_dumps(<str>)): the escaped content between two quotes
JsonStrLen(text) == 2 + JsonEscapedLen(text, TRUE)

\* CustomJsonEncoder.default: {"text": <str>, "truncated": <bool>}
JsonTruncTextLen(t) ==
    9 + JsonStrLen(t.text) + 15 + (IF t.truncated THEN 4 ELSE 5) + 1

\* An optional JsonTruncText value: null or the encoded object
OptTruncLen(o) == IF o.some THEN JsonTruncTextLen(o.v) ELSE 4

\* Lengths of the operation-type strings written with their quotes
OperationTypeLen(ty) ==
    CASE ty = "query" -> 7
      [] ty = "mutation" -> 10
      [] ty = "subscription" -> 14
      [] OTHER -> 4

\* {"name": .., "operation_type": .., "query": .., "result": ..}
GQLOperationPayloadLen(p) ==
    9 + OptTruncLen(p.name) + 20 + OperationTypeLen(p.operation_type)
      + 11 + OptTruncLen(p.query) + 12 + OptTruncLen(p.result) + 1

RECURSIVE SumPayloadLen(_)
SumPayloadLen(ps) ==
    IF ps = <<>> THEN 0 ELSE GQLOperationPayloadLen(Head(ps)) + SumPayloadLen(Tail(ps))

\* A JSON list: brackets, the items, and ", " between items
OperationsListLen(ps) ==
    2 + SumPayloadLen(ps) + (IF Len(ps) > 1 THEN 2 * (Len(ps) - 1) ELSE 0)

TRUNC_PLACEHOLDER == JsonTruncText(<<>>, FALSE, 0, TRUE)
EMPTY_TRUNC == JsonTruncText(<<>>, TRUE, 0, TRUE)

GQL_OPERATION_PLACEHOLDER ==
    [name |-> Some(TRUNC_PLACEHOLDER), operation_type |-> "subscription",
     query |-> Some(TRUNC_PLACEHOLDER), result |-> Some(TRUNC_PLACEHOLDER)]

GQL_OPERATION_PLACEHOLDER_SIZE == GQLOperationPayloadLen(GQL_OPERATION_PLACEHOLDER)

\* ------------------------------------------------------------------
\* GraphQL operation records and their serialisation
\* ------------------------------------------------------------------
\* GQLOperationResult: name is None or a string; query is None or a
\* document given by its document_string and by the operation definitions
\* of its document_ast, in order; result is None or a dict.  A result dict
\* is given by the value of its key "a": "empty" is {} and a digit d is
\* {"a": d}.
GQLOperationResult(name, query, result) ==
    [name |-> name, query |-> query, result |-> result]

\* An operation definition of a document: its name (None for an anonymous
\* operation) and its operation ("query", "mutation" or "subscription")
OperationDefinition(name, operation) == [name |-> name, operation |-> operation]

Document(document_string, definitions) ==
    [document_string |-> document_string, definitions |-> definitions]

NoDocument == [some |-> FALSE, v |-> Document(<<>>, <<>>)]

\* get_operation_ast(document_ast, operation_name).operation, "none" when
\* no definition is returned: with a name, the first operation definition
\* of that name; without one (None or ""), the operation definition of the
\* document when it is the only one
get_operation_ast(document_ast, operation_name) ==
    LET defs == document_ast.definitions
    IN  IF operation_name.some /\ operation_name.v # <<>>
        THEN IF \E i \in 1..Len(defs) : defs[i].name = operation_name
             THEN defs[CHOOSE i \in 1..Len(defs) :
                           /\ defs[i].name = operation_name
                           /\ \A j \in 1..(i - 1) : defs[j].name # operation_name].operation
             ELSE "none"
        ELSE IF Len(defs) = 1 THEN defs[1].operation ELSE "none"
NoResult == [some |-> FALSE, v |-> "empty"]

\* json_dumps(operation.result) for the result dicts above: {"a": 1}
ResultDump(r) == IF r = "empty" THEN <<123, 125>> ELSE <<123, 34, 97, 34, 58, 32, 49, 125>>

\* Python truthiness of the three fields
NameTruthy(op) == op.name.some /\ op.name.v # <<>>
QueryTruthy(op) == op.query.some
ResultTruthy(op) == op.result.some /\ op.result.v # "empty"

ValueError == "ValueError"
Ok == "ok"

\* The locals name, query and result are assigned in this order (each
\* binding stands after the text that reads it); limit0..limit3 are the
\* successive values of bytes_limit; limits holds the limits that the calls
\* of truncate for name, query and result are made with.
serialize_gql_operation_result(operation, bytes_limit) ==
    LET limit0 == bytes_limit - GQL_OPERATION_PLACEHOLDER_SIZE
    IN  IF limit0 < 0
        THEN [status |-> ValueError, payload |-> GQL_OPERATION_PLACEHOLDER, left |-> 0,
              limits |-> <<0, 0, 0>>]
        ELSE
        Only({
          LET limit1 == IF name.some THEN limit0 - byte_size(name.v) ELSE limit0
          IN
          Only({
            LET limit2 == IF query.some THEN limit1 - byte_size(query.v) ELSE limit1
                operation_type ==
                    IF QueryTruthy(operation)
                    THEN get_operation_ast(operation.query.v, operation.name)
                    ELSE "none"
            IN
            Only({
              LET limit3 == IF result.some THEN limit2 - byte_size(result.v) ELSE limit2
              IN  [status |-> Ok,
                   payload |-> [name |-> name, operation_type |-> operation_type,
                                query |-> query, result |-> result],
                   left |-> Max(0, limit3),
                   limits |-> <<limit0 \div 3, limit1 \div 2, limit2>>]
            : result \in {IF ResultTruthy(operation)
                          THEN Some(truncate(ResultDump(operation.result.v), limit2, TRUE))
                          ELSE None} })
          : query \in {IF QueryTruthy(operation)
                       THEN Some(truncate(operation.query.v.document_string,
                                          limit1 \div 2, TRUE))
                       ELSE None} })
        : name \in {IF NameTruthy(operation)
                    THEN Some(truncate(operation.name.v, limit0 \div 3, TRUE))
                    ELSE None} })

\* Variant of the loop: every operation is offered the budget divided by the
\* number of all operations
RECURSIVE SerializeLoop_fixed_divisor(_, _, _, _)
SerializeLoop_fixed_divisor(operations, i, bytes_limit, payloads) ==
    IF i >= Len(operations)
    THEN [status |-> Ok, payloads |-> payloads]
    ELSE LET payload_limit == bytes_limit \div Len(operations)
         IN  Only({
               IF r.status = ValueError
               THEN [status |-> ValueError, payloads |-> <<>>]
               ELSE Only({ SerializeLoop_fixed_divisor(operations, i + 1, left,
                                         Append(payloads, r.payload))
                           : left \in {bytes_limit - (payload_limit - r.left)} })
             : r \in {serialize_gql_operation_result(operations[i + 1], payload_limit)} })

\* The for loop of serialize_gql_operation_results from index i (0-based)
RECURSIVE SerializeLoop(_, _, _, _)
SerializeLoop(operations, i, bytes_limit, payloads) ==
    IF i >= Len(operations)
    THEN [status |-> Ok, payloads |-> payloads]
    ELSE LET payload_limit == bytes_limit \div (Len(operations) - i)
         IN  Only({
               IF r.status = ValueError
               THEN [status |-> ValueError, payloads |-> <<>>]
               ELSE Only({ SerializeLoop(operations, i + 1, left,
                                         Append(payloads, r.payload))
                           : left \in {bytes_limit - (payload_limit - r.left)} })
             : r \in {serialize_gql_operation_result(operations[i + 1], payload_limit)} })

\* Variant of serialize_gql_operation_results: when the budget is too small
\* for every operation, the operations that fit are serialized
serialize_gql_operation_results_fitting(operations, bytes_limit) ==
    IF bytes_limit - Len(operations) * GQL_OPERATION_PLACEHOLDER_SIZE < 0
    THEN SerializeLoop(SubSeq(operations, 1, bytes_limit \div GQL_OPERATION_PLACEHOLDER_SIZE),
                       0, bytes_limit, <<>>)
    ELSE SerializeLoop(operations, 0, bytes_limit, <<>>)

\* serialize_gql_operation_results: ValueError when the budget is smaller than
\* one placeholder per operation, otherwise the payloads of the loop
serialize_gql_operation_results(operations, bytes_limit) ==
    IF bytes_limit - Len(operations) * GQL_OPERATION_PLACEHOLDER_SIZE < 0
    THEN [status |-> ValueError, payloads |-> <<>>]
    ELSE SerializeLoop(operations, 0, bytes_limit, <<>>)

\* Variant of generate_api_call_payload: an envelope longer than the limit is
\* returned without operations instead of raising
generate_api_call_payload_degraded(base_len, gql_operations, bytes_limit) ==
    LET remaining_bytes == bytes_limit - base_len
    IN  IF remaining_bytes < 0
        THEN [status |-> Ok, count |-> Len(gql_operations), operations |-> <<>>,
              len |-> base_len]
        ELSE Only({
               LET operations == IF r.status = ValueError THEN <<>> ELSE r.payloads
               IN  [status |-> Ok,
                    count |-> Len(gql_operations),
                    operations |-> operations,
                    len |-> base_len - 2 + OperationsListLen(operations)]
             : r \in {serialize_gql_operation_results(gql_operations, remaining_bytes)} })

\* generate_api_call_payload, given len(base_dump) for the envelope of the
\* request: the outcome is ValueError or the payload, described by its
\* gql_operations object and by the length of the returned string.
generate_api_call_payload(base_len, gql_operations, bytes_limit) ==
    LET remaining_bytes == bytes_limit - base_len
    IN  IF remaining_bytes < 0
        THEN [status |-> ValueError, count |-> 0, operations |-> <<>>, len |-> 0]
        ELSE Only({
               LET operations == IF r.status = ValueError THEN <<>> ELSE r.payloads
               IN  [status |-> Ok,
                    count |-> Len(gql_operations),
                    operations |-> operations,
                    len |-> base_len - 2 + OperationsListLen(operations)]
             : r \in {serialize_gql_operation_results(gql_operations, remaining_bytes)} })

\* generate_truncated_event_delivery_attempt_payload, given
\* len(initial_dump) for the envelope: response_body is attempt.response
\* or "", payload is delivery.payload.payload or None.  The envelope holds
\* len(response_body.encode("utf-8")), which raises UnicodeEncodeError (a
\* ValueError) for a response with a lone surrogate, before the envelope is
\* dumped; len(payload) is taken without encoding.
generate_truncated_event_delivery_attempt_payload(base_len, response, payload, bytes_limit) ==
    LET remaining_bytes == bytes_limit - base_len
    IN  IF \E i \in 1..Len(response) : Utf8Len(response[i]) = UnicodeEncodeError
        THEN [status |-> "UnicodeEncodeError", response_body |-> TRUNC_PLACEHOLDER,
              payload_body |-> None, len |-> 0]
        ELSE IF remaining_bytes < 0
        THEN [status |-> ValueError, response_body |-> TRUNC_PLACEHOLDER,
              payload_body |-> None, len |-> 0]
        ELSE Only({ Only({
                 [status |-> Ok,
                  response_body |-> response_body,
                  payload_body |-> payload_body,
                  len |-> base_len
                          - JsonTruncTextLen(TRUNC_PLACEHOLDER) + JsonTruncTextLen(response_body)
                          + (IF payload_body.some
                             THEN JsonTruncTextLen(payload_body.v)
                                  - JsonTruncTextLen(TRUNC_PLACEHOLDER)
                             ELSE 0)]
               : payload_body \in
                     {IF payload.some
                      THEN Some(truncate(payload.v,
                                         remaining_bytes - byte_size(response_body), TRUE))
                      ELSE None} })
             : response_body \in {truncate(response, remaining_bytes \div 2, TRUE)} })

\* ------------------------------------------------------------------
\* ObservabilityBuffer
\* ------------------------------------------------------------------
\* WebhookEventAsyncType: the two observability event types, and one
\* ordinary webhook event type standing for all the others
OBSERVABILITY_API_CALLS == "observability_api_calls"
OBSERVABILITY_EVENT_DELIVERY_ATTEMPTS == "observability_event_delivery_attempts"
OBSERVABILITY_EVENTS == {OBSERVABILITY_API_CALLS, OBSERVABILITY_EVENT_DELIVERY_ATTEMPTS}
ORDER_CREATED == "order_created"
EventTypes == OBSERVABILITY_EVENTS \cup {ORDER_CREATED}

\* cache.make_key(CACHE_KEY + event_type), CACHE_KEY = "buffer_": one queue
\* name per event type
queue_name(event_type) == "buffer_" \o event_type

QueueNames == {queue_name(e) : e \in EventTypes}

\* Variant of no_ack: messages wait for an acknowledgement nobody sends
no_ack_off == FALSE

\* ObservabilityBuffer.no_ack: messages are consumed without acknowledgement
no_ack == TRUE

\* ObservabilityBuffer.__init__
ObservabilityBuffer(event_type, batch, max_length) ==
    [event_type |-> event_type, queue_name |-> queue_name(event_type),
     batch |-> Max(0, batch), max_length |-> Max(0, max_length)]

\* The message that put() publishes for a payload, and message.decode()
Message(json_payload) ==
    [body |-> json_payload, content_type |-> "application/json", compression |-> "zlib"]
decode(message) == message.body

\* qsize(): the depth reported by the broker; when the broker answers the
\* depth query with a ChannelError the except clause returns 0, whatever the
\* queue holds
qsize(buffer, qs, broker) ==
    IF broker = "channel_error" THEN 0 ELSE Len(qs[buffer.queue_name])

\* The test of put_event on len(self)
BufferFull(depth, max_length) == depth >= max_length

FullObservabilityEventsBuffer == "FullObservabilityEventsBuffer"
ObservabilityConnectionError == "ObservabilityConnectionError"

\* put_event up to self.put(): FullObservabilityEventsBuffer is raised, or
\* the call goes on to put() ("put")
put_event(buffer, qs, broker) ==
    IF BufferFull(qsize(buffer, qs, broker), buffer.max_length)
    THEN FullObservabilityEventsBuffer
    ELSE "put"

\* The for loop of get_events with iter iterations left: every get() takes
\* the oldest message of the queue (a message consumed with no_ack is gone
\* from the broker, otherwise it stays unacknowledged on the channel), and
\* Empty ends the loop.  receives counts the get() calls made.
RECURSIVE GetEventsLoop(_, _, _, _, _)
GetEventsLoop(q, events, unacked, iter, receives) ==
    IF iter = 0
    THEN [events |-> events, queue |-> q, unacked |-> unacked, receives |-> receives]
    ELSE IF q = <<>>
    THEN [events |-> events, queue |-> q, unacked |-> unacked, receives |-> receives + 1]
    ELSE GetEventsLoop(Tail(q), Append(events, decode(Head(q))),
                       IF no_ack THEN unacked ELSE Append(unacked, Head(q)),
                       iter - 1, receives + 1)

\* Closing the channel of a buffer: the broker puts the unacknowledged
\* messages of the channel back at the head of the queue
CloseChannel(q, unacked) == unacked \o q

\* What the broker and the connection pool do to a step of a call: "up"
\* when they serve it, otherwise the fault the step meets.  "limit_exceeded"
\* is pools.connections[...].acquire(block=False) raising LimitExceeded (a
\* KombuError); the other faults are raised inside the scope, and nothing is
\* published or received by the step: a connection or channel error, another
\* KombuError, and an exception of any other class.  "channel_error" is a
\* ChannelError raised by the query of the step on the queue: by the depth
\* query, where qsize swallows it, or by put() or get().
BrokerFaults ==
    {"connection_error", "channel_error", "kombu_error", "limit_exceeded", "other_error"}
BrokerStates(up) == IF up THEN {"up"} ELSE BrokerFaults

ObservabilityKombuError == "ObservabilityKombuError"

\* The exception the body of the scope ends with under a broker fault
BodyFault(broker) ==
    CASE broker \in {"connection_error", "channel_error"} -> "connection_errors"
      [] broker = "kombu_error" -> "KombuError"
      [] broker = "other_error" -> "Exception"
      [] OTHER -> Ok

\* No connection was asked for
NoConnection == [status |-> Ok, acquired |-> 0, released |-> 0, stray |-> 0]

\* observability_connection around a body that ends with body_status: the
\* status the scope ends with, the connections acquired from the pool and
\* released to it, and the releases applied to a connection that was never
\* acquired (when acquire raises, the finally clause releases the connection
\* object built by observability_broker()).
observability_connection(broker, body_status) ==
    IF broker = "limit_exceeded"
    THEN [status |-> ObservabilityKombuError, acquired |-> 0, released |-> 0, stray |-> 1]
    ELSE [status |-> CASE body_status = "connection_errors" -> ObservabilityConnectionError
                       [] body_status = "KombuError" -> ObservabilityKombuError
                       [] OTHER -> body_status,
          acquired |-> 1, released |-> 1, stray |-> 0]

\* Variant of _get_buffer: the connection is acquired before the event type
\* is validated
GetBufferConnection_early(event_type, broker, body_status) ==
    observability_connection(broker, body_status)

\* _get_buffer: the connection scope of a call for event_type whose body
\* would end with body_status; no connection for an unsupported event type
GetBufferConnection(event_type, broker, body_status) ==
    IF event_type \notin OBSERVABILITY_EVENTS
    THEN NoConnection
    ELSE observability_connection(broker, body_status)

\* _get_buffer around get_events: the event type is validated, then a
\* connection is acquired; the status with which the call ends when the
\* broker fails it, or Ok
GetBufferStatus(event_type, broker) ==
    IF event_type \notin OBSERVABILITY_EVENTS THEN ValueError
    ELSE observability_connection(broker, BodyFault(broker)).status

\* The exception that a step whose query is the depth query leaves to its
\* caller under a broker fault: qsize swallows the ChannelError
QsizeFault(broker) == IF broker = "channel_error" THEN Ok ELSE BodyFault(broker)

\* The connection scope of a call that waits at put(): acquired, not released
AtPutConnection == [status |-> "put", acquired |-> 1, released |-> 0, stray |-> 0]

\* observability_buffer_put_event up to self.put(): the exception the call
\* ends with (and the event_type attribute of FullObservabilityEventsBuffer),
\* or "put" when the call goes on to put()
observability_buffer_put_event(qs, broker, batch, max_length, event_type) ==
    LET st == IF event_type \notin OBSERVABILITY_EVENTS THEN ValueError
              ELSE observability_connection(broker, QsizeFault(broker)).status
    IN  IF st # Ok
        THEN [status |-> st, event_type |-> "none",
              conn |-> GetBufferConnection(event_type, broker, QsizeFault(broker))]
        ELSE IF put_event(ObservabilityBuffer(event_type, batch, max_length), qs, broker)
                = FullObservabilityEventsBuffer
        THEN [status |-> FullObservabilityEventsBuffer, event_type |-> event_type,
              conn |-> GetBufferConnection(event_type, broker,
                                           FullObservabilityEventsBuffer)]
        ELSE [status |-> "put", event_type |-> "none", conn |-> AtPutConnection]

\* size_in_batches on a connected buffer: math.ceil(self.qsize() / self.batch);
\* the division raises ZeroDivisionError when batch is 0, and the ceiling of
\* n / d for n >= 0 and d > 0 is (n + d - 1) \div d
size_in_batches(buffer, qs, broker) ==
    IF buffer.batch = 0
    THEN [status |-> "ZeroDivisionError", value |-> 0]
    ELSE [status |-> Ok,
          value |-> (qsize(buffer, qs, broker) + buffer.batch - 1) \div buffer.batch]

\* observability_buffer_size_in_batches
observability_buffer_size_in_batches(qs, broker, batch, max_length, event_type) ==
    LET st == IF event_type \notin OBSERVABILITY_EVENTS THEN ValueError
              ELSE observability_connection(broker, QsizeFault(broker)).status
    IN  IF st # Ok
        THEN [status |-> st, value |-> 0,
              conn |-> GetBufferConnection(event_type, broker, QsizeFault(broker))]
        ELSE Only({ [status |-> r.status, value |-> r.value,
                     conn |-> GetBufferConnection(event_type, broker, r.status)]
                    : r \in {size_in_batches(
                                 ObservabilityBuffer(event_type, batch, max_length),
                                 qs, broker)} })

\* ------------------------------------------------------------------
\* Capture boundary: observability_api_call, observability_event_delivery_attempt
\* ------------------------------------------------------------------
\* len(base_dump) of the envelope of a request: "app" is null or an object
ApiBaseLen == 300
ApiAppExtra == 29
ApiEnvelopeLen(request) == ApiBaseLen + (IF request.app THEN ApiAppExtra ELSE 0)

\* len(initial_dump) of a small delivery-attempt envelope
AttemptBaseLen == 400

\* The event that observability_api_call enqueues for a generated payload
ApiCallEvent(request, out) ==
    [kind |-> "api_call", request |-> request.id, count |-> out.count,
     operations |-> out.operations, len |-> out.len]

\* The event that observability_event_delivery_attempt enqueues
AttemptEvent(out) ==
    [kind |-> "attempt", request |-> 0, count |-> 0,
     operations |-> <<out.response_body>>, len |-> out.len]

\* Variant of the except clauses: only (ValueError, ObservabilityError) is
\* caught
ExceptClauses_narrow(status) ==
    IF status \in {ValueError, "UnicodeEncodeError", ObservabilityKombuError,
                   ObservabilityConnectionError, FullObservabilityEventsBuffer}
    THEN "info"
    ELSE "raise"

\* The except clauses of the two capture functions for an exception of the
\* try block: (ValueError, ObservabilityError) is logged with logger.info
\* (UnicodeEncodeError is a ValueError), any other Exception with
\* logger.warn; "raise" would let it propagate
ExceptClauses(status) ==
    IF status \in {ValueError, "UnicodeEncodeError", ObservabilityKombuError,
                   ObservabilityConnectionError, FullObservabilityEventsBuffer}
    THEN "info"
    ELSE "warn"

\* The exception that leaves the try statement, "none" when it is caught
Propagated(status) ==
    IF status # Ok /\ ExceptClauses(status) = "raise" THEN status ELSE "none"

\* No event
NoEvent == [kind |-> "none", request |-> 0, count |-> 0, operations |-> <<>>, len |-> 0]

\* The capture function returned before the try statement
Skipped(reason) ==
    [status |-> reason, built |-> FALSE, attempted |-> FALSE, raised |-> "none",
     conn |-> NoConnection, event_type |-> "none", event |-> NoEvent]

\* The try statement of the two capture functions up to self.put(), for the
\* outcome out of the payload generator and the event made of its payload:
\* the generator raised ("payload_too_big" for the ValueError of an envelope
\* longer than the limit), or observability_buffer_put_event(event_type,
\* event) was called and ended with an exception or waits at put() ("put").
\* built: the generator was called; attempted: the buffer put was called.
TryPut(out, event, event_type, qs, broker, batch, max_length) ==
    IF out.status # Ok
    THEN [status |-> IF out.status = ValueError THEN "payload_too_big" ELSE out.status,
          built |-> TRUE, attempted |-> FALSE, raised |-> Propagated(out.status),
          conn |-> NoConnection, event_type |-> "none", event |-> NoEvent]
    ELSE Only({ [status |-> r.status, built |-> TRUE, attempted |-> TRUE,
                 raised |-> IF r.status = "put" THEN "none" ELSE Propagated(r.status),
                 conn |-> r.conn, event_type |-> event_type, event |-> event]
                : r \in {observability_buffer_put_event(
                             qs, broker, batch, max_length, event_type)} })

\* Variant of observability_api_call: calls made by an app are reported
\* whatever OBSERVABILITY_REPORT_ALL_API_CALLS is
observability_api_call_any_app(api_call, active, report_all, hooks, max_payload, qs, broker, batch, max_length) ==
    IF ~active THEN Skipped("inactive")
    ELSE IF ~api_call.request.some \/ ~api_call.response.some
    THEN Skipped("incomplete")
    ELSE IF OBSERVABILITY_API_CALLS \notin hooks
    THEN Skipped("no_webhooks")
    ELSE Only({ TryPut(out, ApiCallEvent(api_call.request.v, out), OBSERVABILITY_API_CALLS,
                       qs, broker, batch, max_length)
                : out \in {generate_api_call_payload(ApiEnvelopeLen(api_call.request.v),
                                                     api_call.queries, max_payload)} })

\* observability_api_call up to self.put(): the reason the record is
\* skipped, or the outcome of building its payload and of the buffer put up
\* to put(); exceptions of the try block end as a log line
observability_api_call(api_call, active, report_all, hooks, max_payload, qs, broker, batch, max_length) ==
    IF ~active THEN Skipped("inactive")
    ELSE IF ~api_call.request.some \/ ~api_call.response.some
    THEN Skipped("incomplete")
    ELSE IF ~report_all /\ api_call.request.v.app
    THEN Skipped("not_eligible")
    ELSE IF OBSERVABILITY_API_CALLS \notin hooks
    THEN Skipped("no_webhooks")
    ELSE Only({ TryPut(out, ApiCallEvent(api_call.request.v, out), OBSERVABILITY_API_CALLS,
                       qs, broker, batch, max_length)
                : out \in {generate_api_call_payload(ApiEnvelopeLen(api_call.request.v),
                                                     api_call.queries, max_payload)} })

\* Variant of observability_event_delivery_attempt without the early return
\* for the delivery attempts of observability events
observability_event_delivery_attempt_unguarded(event_type, response, payload, hooks, max_payload, qs, broker, batch, max_length) ==
    IF OBSERVABILITY_EVENT_DELIVERY_ATTEMPTS \notin hooks
    THEN Skipped("no_webhooks")
    ELSE Only({ TryPut(out, AttemptEvent(out), event_type, qs, broker, batch, max_length)
                : out \in {generate_truncated_event_delivery_attempt_payload(
                               AttemptBaseLen, response, payload, max_payload)} })

\* observability_event_delivery_attempt up to self.put(), for the delivery
\* attempt of an event of type event_type: the buffer put is called with
\* event_type, the type of the delivered event
observability_event_delivery_attempt(event_type, response, payload, hooks, max_payload, qs, broker, batch, max_length) ==
    IF event_type \in OBSERVABILITY_EVENTS
    THEN Skipped("observability_event")
    ELSE IF OBSERVABILITY_EVENT_DELIVERY_ATTEMPTS \notin hooks
    THEN Skipped("no_webhooks")
    ELSE Only({ TryPut(out, AttemptEvent(out), event_type, qs, broker, batch, max_length)
                : out \in {generate_truncated_event_delivery_attempt_payload(
                               AttemptBaseLen, response, payload, max_payload)} })

\* ------------------------------------------------------------------
\* Idle values of each part (used by the specifications of the others)
\* ------------------------------------------------------------------
IdleTrunc ==
    /\ t_s = <<>> /\ t_limit = 0 /\ t_ascii = TRUE /\ t_out = NoValue /\ t_pc = "idle"

IdleApi ==
    /\ a_ops = <<>> /\ a_base = 0 /\ a_limit = 0 /\ a_out = NoValue /\ a_pc = "idle"

IdleAtt ==
    /\ d_response = <<>> /\ d_delivery = FALSE /\ d_payload = None
    /\ d_base = 0 /\ d_limit = 0 /\ d_out = NoValue /\ d_pc = "idle"

EmptyQueues == [n \in QueueNames |-> <<>>]

\* A handler call: its argument, its outcome (status, the event_type
\* attribute of a raised FullObservabilityEventsBuffer, the returned events,
\* the number of get() calls made) and the queues before the call (for a
\* put that reached put(), the queues before put())
NoCall == [op |-> "none", arg |-> "none", status |-> "none", event_type |-> "none",
           events |-> <<>>, receives |-> 0, before |-> EmptyQueues,
           value |-> 0, broker |-> "up", conn |-> NoConnection]

\* b_last and c_before are records kept for the properties of single
\* calls.  A specification that starts with b_last = NotRecorded keeps none:
\* its steps leave b_last and c_before as they are.
NotRecorded == [NoCall EXCEPT !.op = "not_recorded"]
Record(call) == IF b_last = NotRecorded THEN NotRecorded ELSE call

IdleBuf ==
    /\ queues = EmptyQueues /\ broker_up = TRUE /\ cfg_batch = 0
    /\ cfg_max_length = 0 /\ next_id = 1 /\ b_last = NoCall

NoRequest == [id |-> 0, app |-> FALSE]
NoResponse == [id |-> 0]

\* ApiCallResponse: request and response are None until the wrapper sets them
ApiCallResponse(request, response, queries) ==
    [request |-> request, response |-> response, queries |-> queries]

NewApiCallResponse ==
    ApiCallResponse([some |-> FALSE, v |-> NoRequest], [some |-> FALSE, v |-> NoResponse], <<>>)

NoApiCall == [some |-> FALSE, v |-> NewApiCallResponse]

NewGQLOperationResult == GQLOperationResult(None, NoDocument, NoResult)

NoOperation == [some |-> FALSE, v |-> NewGQLOperationResult]

\* A step of the capture code: what was called and with what, and its outcome
\* (built: a payload generator was called; attempted: the buffer put was
\* called; raised: the exception that left the capture function; returned:
\* the response the dispatch wrapper returned; conn: the connection scope).
\* op is "put" while the capture function call waits at self.put() with
\* event to publish for event_type.
NoStep == [op |-> "none", call |-> "none", request |-> 0, n |-> 0, done |-> <<>>,
           in_request |-> FALSE, appended |-> FALSE, arg |-> "none", status |-> "none",
           before |-> EmptyQueues, record |-> NewApiCallResponse, broker |-> "up",
           built |-> FALSE, attempted |-> FALSE, raised |-> "none",
           returned |-> NoResponse, conn |-> NoConnection,
           event_type |-> "none", event |-> NoEvent]

IdleCap ==
    /\ set_active = FALSE /\ set_report_all = FALSE /\ set_max_payload = 0
    /\ webhooks = {} /\ api_var = NoApiCall /\ gql_var = NoOperation
    /\ r_pc = "out" /\ g_pc = "out" /\ r_req = NoRequest
    /\ next_req = 1 /\ next_op = 1 /\ g_done = <<>> /\ cap_last = NoStep

Producers == 1..NumProducers
Consumers == 1..NumConsumers
EventIds == 1..MaxPuts

IdleConc ==
    /\ p_pc = [p \in Producers |-> "idle"]
    /\ p_et = [p \in Producers |-> "none"]
    /\ c_pc = [c \in Consumers |-> "idle"]
    /\ c_et = [c \in Consumers |-> "none"]
    /\ c_events = [c \in Consumers |-> <<>>]
    /\ c_iter = [c \in Consumers |-> 0]
    /\ c_unacked = [c \in Consumers |-> <<>>]
    /\ c_before = [c \in Consumers |-> EmptyQueues]
    /\ ret_count = [i \in EventIds |-> 0]
    /\ foreign = FALSE

\* ------------------------------------------------------------------
\* Specification of truncate: inputs drawn in Init, one call
\* ------------------------------------------------------------------
InitTrunc ==
    /\ t_s \in StringsUpTo(Alphabet, MaxStrLen)
    /\ t_limit \in -1..MaxLimit
    /\ t_ascii \in BOOLEAN
    /\ t_out = NoValue
    /\ t_pc = "call"
    /\ IdleApi /\ IdleAtt /\ IdleBuf /\ IdleConc /\ IdleCap

\* One call of truncate: it returns a JsonTruncText ("done") or raises
Truncate ==
    /\ t_pc = "call"
    /\ \E r \in {truncate(t_s, t_limit, t_ascii)} :
           /\ t_out' = r
           /\ t_pc' = IF "raised" \in DOMAIN r THEN "raised" ELSE "done"
    /\ UNCHANGED <<t_s, t_limit, t_ascii, apiVars, attVars, bufVars, concVars, capVars>>

NextTrunc == Truncate

SpecTrunc == InitTrunc /\ [][NextTrunc]_vars

\* ------------------------------------------------------------------
\* Specification of generate_api_call_payload
\* ------------------------------------------------------------------
NameChoices == {None, Some(<<>>), Some(<<97, 97>>)}
\* No document, a document of one subscription named "aa", a document of
\* one anonymous query, and a document of a mutation named "aa" and a query
\* named "b"
QueryChoices == {NoDocument,
                 Some(Document(<<10, 97, 97>>,
                               <<OperationDefinition(Some(<<97, 97>>), "subscription")>>)),
                 Some(Document(<<97>>, <<OperationDefinition(None, "query")>>)),
                 Some(Document(<<98>>, <<OperationDefinition(Some(<<97, 97>>), "mutation"),
                                         OperationDefinition(Some(<<98>>), "query")>>))}
ResultChoices == {NoResult, [some |-> TRUE, v |-> "empty"], [some |-> TRUE, v |-> "1"]}

OperationChoices ==
    {GQLOperationResult(n, q, r) : n \in NameChoices, q \in QueryChoices, r \in ResultChoices}

ApiLimits(base) ==
    {base - 1} \cup
    {base + k * GQL_OPERATION_PLACEHOLDER_SIZE + d : k \in 0..MaxOps, d \in -1..MaxExtra}

InitApi ==
    /\ a_ops \in StringsUpTo(OperationChoices, MaxOps)
    /\ a_base = ApiBaseLen
    /\ a_limit \in ApiLimits(ApiBaseLen)
    /\ a_out = NoValue
    /\ a_pc = "call"
    /\ IdleTrunc /\ IdleAtt /\ IdleBuf /\ IdleConc /\ IdleCap

GenerateApiCallPayload ==
    /\ a_pc = "call"
    /\ a_out' = generate_api_call_payload(a_base, a_ops, a_limit)
    /\ a_pc' = "done"
    /\ UNCHANGED <<a_ops, a_base, a_limit, truncVars, attVars, bufVars, concVars, capVars>>

NextApi == GenerateApiCallPayload

SpecApi == InitApi /\ [][NextApi]_vars

\* ------------------------------------------------------------------
\* Specification of generate_api_call_payload around the budget of the
\* operations allocator: operations with and without fields, limits from one
\* byte below k placeholders up to MaxExtra bytes above
\* ------------------------------------------------------------------
InitAllocator ==
    /\ a_ops \in StringsUpTo({GQLOperationResult(None, NoDocument, NoResult),
                               GQLOperationResult(None, NoDocument, [some |-> TRUE, v |-> "1"]),
                               GQLOperationResult(Some(<<97, 97>>),
                                                  Some(Document(<<10, 97, 97>>,
                                                      <<OperationDefinition(Some(<<97, 97>>),
                                                                            "subscription")>>)),
                                                  [some |-> TRUE, v |-> "1"])},
                              MaxOps)
    /\ a_base = ApiBaseLen
    /\ a_limit \in {ApiBaseLen + k * GQL_OPERATION_PLACEHOLDER_SIZE + d :
                       k \in 0..MaxOps, d \in -1..MaxExtra}
    /\ a_out = NoValue
    /\ a_pc = "call"
    /\ IdleTrunc /\ IdleAtt /\ IdleBuf /\ IdleConc /\ IdleCap

SpecAllocator == InitAllocator /\ [][NextApi]_vars

\* ------------------------------------------------------------------
\* Specification of generate_truncated_event_delivery_attempt_payload
\* ------------------------------------------------------------------
BodyAlphabet == {97, 10, 243}

InitAtt ==
    /\ d_response \in StringsUpTo(BodyAlphabet, MaxStrLen) \cup {<<55296>>, <<97, 55296>>}
    /\ d_delivery \in BOOLEAN
    /\ d_payload \in {None} \cup
                     (IF d_delivery
                      THEN {Some(b) : b \in StringsUpTo(BodyAlphabet, MaxStrLen) \ {<<>>}}
                      ELSE {})
    /\ d_base = AttemptBaseLen
    /\ d_limit \in (AttemptBaseLen - 1)..(AttemptBaseLen + MaxBodyBudget)
    /\ d_out = NoValue
    /\ d_pc = "call"
    /\ IdleTrunc /\ IdleApi /\ IdleBuf /\ IdleConc /\ IdleCap

GenerateAttemptPayload ==
    /\ d_pc = "call"
    /\ d_out' = generate_truncated_event_delivery_attempt_payload(
                    d_base, d_response, d_payload, d_limit)
    /\ d_pc' = "done"
    /\ UNCHANGED <<d_response, d_delivery, d_payload, d_base, d_limit,
                   truncVars, apiVars, bufVars, concVars, capVars>>

NextAtt == GenerateAttemptPayload

SpecAtt == InitAtt /\ [][NextAtt]_vars

\* ------------------------------------------------------------------
\* The buffer handlers, one action per round trip to the broker:
\* observability_buffer_put_event is the test of len(self) and then put(),
\* observability_buffer_get_events one step per get().  Every step meets
\* the broker in the state it is in at that moment.
\* ------------------------------------------------------------------
\* The payload of the event numbered id, produced for event_type
Event(id, event_type) == [id |-> id, et |-> event_type]

InFlight == Cardinality({p \in Producers : p_pc[p] = "checked"})

\* observability_buffer_put_event up to the test of len(self): the event
\* type is validated, the connection acquired, the buffer built and its
\* depth read; the call ends here with an exception, or goes on to put()
PutCheck(p, event_type, broker) ==
    /\ p_pc[p] = "idle"
    /\ next_id + InFlight <= MaxPuts
    /\ \E r \in {observability_buffer_put_event(queues, broker, cfg_batch, cfg_max_length,
                                                 event_type)} :
           IF r.status = "put"
           THEN /\ p_pc' = [p_pc EXCEPT ![p] = "checked"]
                /\ p_et' = [p_et EXCEPT ![p] = event_type]
                /\ b_last' = Record(NoCall)
           ELSE /\ b_last' = Record([NoCall EXCEPT
                                !.op = "put", !.arg = event_type, !.status = r.status,
                                !.event_type = r.event_type,
                                !.before = queues, !.broker = broker, !.conn = r.conn])
                /\ UNCHANGED <<p_pc, p_et>>
    /\ UNCHANGED <<queues, broker_up, cfg_batch, cfg_max_length, next_id,
                   c_pc, c_et, c_events, c_iter, c_unacked, c_before, ret_count, foreign,
                   truncVars, apiVars, attVars, capVars>>

\* self.put(...) of put_event and the exit of the scopes: the message is
\* published, or the broker fails the put and nothing is published
PutEnqueue(p, broker) ==
    /\ p_pc[p] = "checked"
    /\ \E conn \in {observability_connection("up", BodyFault(broker))} :
           /\ queues' = IF conn.status = Ok
                        THEN [queues EXCEPT ![queue_name(p_et[p])] =
                                 Append(@, Message(Event(next_id, p_et[p])))]
                        ELSE queues
           /\ next_id' = IF conn.status = Ok THEN next_id + 1 ELSE next_id
           /\ b_last' = Record([NoCall EXCEPT
                           !.op = "put", !.arg = p_et[p], !.status = conn.status,
                           !.before = queues, !.broker = broker, !.conn = conn])
    /\ p_pc' = [p_pc EXCEPT ![p] = "idle"]
    /\ p_et' = [p_et EXCEPT ![p] = "none"]
    /\ UNCHANGED <<broker_up, cfg_batch, cfg_max_length,
                   c_pc, c_et, c_events, c_iter, c_unacked, c_before, ret_count, foreign,
                   truncVars, apiVars, attVars, capVars>>

RECURSIVE CountReturned(_, _)
CountReturned(counts, events) ==
    IF events = <<>> THEN counts
    ELSE CountReturned([counts EXCEPT ![Head(events).id] = @ + 1], Tail(events))

\* One iteration of the loop of get_events with iter iterations left, served
\* by the broker: a message, or Empty and break.  When the loop ends here
\* (Empty, or the last iteration), get_events returns its list and the
\* buffer (its channel) is closed: nothing between the last get() and the
\* return touches the broker.  before: the queues when the call began.
DrainStep(c, event_type, events, unacked, iter, before) ==
    LET name == queue_name(event_type)
        r == GetEventsLoop(queues[name], events, unacked, Min(1, iter), 0)
        more == Len(r.events) > Len(events) /\ iter > 1
        batch == ObservabilityBuffer(event_type, cfg_batch, cfg_max_length).batch
    IN  /\ c_et' = [c_et EXCEPT ![c] = event_type]
        /\ c_events' = [c_events EXCEPT ![c] = r.events]
        /\ IF more
           THEN /\ queues' = [queues EXCEPT ![name] = r.queue]
                /\ c_unacked' = [c_unacked EXCEPT ![c] = r.unacked]
                /\ c_iter' = [c_iter EXCEPT ![c] = iter - 1]
                /\ c_before' = [c_before EXCEPT ![c] = IF b_last = NotRecorded
                                                     THEN EmptyQueues ELSE before]
                /\ c_pc' = [c_pc EXCEPT ![c] = "draining"]
                /\ b_last' = Record(NoCall)
                /\ UNCHANGED <<ret_count, foreign>>
           ELSE /\ queues' = [queues EXCEPT ![name] = CloseChannel(r.queue, r.unacked)]
                /\ c_unacked' = [c_unacked EXCEPT ![c] = <<>>]
                /\ c_iter' = [c_iter EXCEPT ![c] = 0]
                /\ c_before' = [c_before EXCEPT ![c] = EmptyQueues]
                /\ c_pc' = [c_pc EXCEPT ![c] = "returned"]
                /\ ret_count' = CountReturned(ret_count, r.events)
                /\ foreign' = (foreign \/ \E i \in 1..Len(r.events) :
                                             r.events[i].et # event_type)
                /\ b_last' = Record([NoCall EXCEPT
                                !.op = "get", !.arg = event_type, !.status = Ok,
                                !.events = r.events,
                                !.receives = batch - iter + r.receives,
                                !.before = before, !.broker = "up",
                                !.conn = observability_connection("up", Ok)])
        /\ UNCHANGED <<broker_up, cfg_batch, cfg_max_length, next_id,
                       p_pc, p_et, truncVars, apiVars, attVars, capVars>>

\* The call of get_events left by an exception: nothing is returned, the
\* channel is closed, and what the earlier get() calls took stays taken
DrainRaise(c, event_type, status, conn, receives, before, broker) ==
    /\ queues' = [queues EXCEPT ![queue_name(event_type)] = CloseChannel(@, c_unacked[c])]
    /\ b_last' = Record([NoCall EXCEPT
                    !.op = "get", !.arg = event_type, !.status = status,
                    !.receives = receives, !.before = before, !.broker = broker,
                    !.conn = conn])
    /\ c_pc' = [c_pc EXCEPT ![c] = "idle"]
    /\ c_et' = [c_et EXCEPT ![c] = "none"]
    /\ c_events' = [c_events EXCEPT ![c] = <<>>]
    /\ c_iter' = [c_iter EXCEPT ![c] = 0]
    /\ c_unacked' = [c_unacked EXCEPT ![c] = <<>>]
    /\ c_before' = [c_before EXCEPT ![c] = EmptyQueues]
    /\ UNCHANGED <<broker_up, cfg_batch, cfg_max_length, next_id, ret_count, foreign,
                   p_pc, p_et, truncVars, apiVars, attVars, capVars>>

\* observability_buffer_get_events is called: the event type is validated,
\* the connection acquired, the buffer built, and the loop of get_events
\* makes its first iteration.  A broker fault ends the call before the
\* first get() (no receive was made) or is raised by the first get() (one
\* receive); the loop of batch 0 makes no get().
DrainBegin(c, event_type, broker) ==
    /\ c_pc[c] = "idle"
    /\ IF GetBufferStatus(event_type, broker) # Ok
       THEN \E receives \in
                 (IF \/ event_type \notin OBSERVABILITY_EVENTS
                     \/ broker = "limit_exceeded"
                     \/ ObservabilityBuffer(event_type, cfg_batch, cfg_max_length).batch = 0
                  THEN {0} ELSE {0, 1}) :
                DrainRaise(c, event_type, GetBufferStatus(event_type, broker),
                           GetBufferConnection(event_type, broker, BodyFault(broker)),
                           receives, queues, broker)
       ELSE DrainStep(c, event_type, <<>>, <<>>,
                      ObservabilityBuffer(event_type, cfg_batch, cfg_max_length).batch, queues)

\* A later iteration of the loop of get_events: its get() is served, or the
\* broker fails it and the exception leaves get_events
DrainGet(c, broker) ==
    /\ c_pc[c] = "draining"
    /\ IF BodyFault(broker) # Ok
       THEN DrainRaise(c, c_et[c], observability_connection("up", BodyFault(broker)).status,
                       observability_connection("up", BodyFault(broker)),
                       ObservabilityBuffer(c_et[c], cfg_batch, cfg_max_length).batch
                           - c_iter[c] + 1,
                       c_before[c], broker)
       ELSE DrainStep(c, c_et[c], c_events[c], c_unacked[c], c_iter[c], c_before[c])

\* The caller of the drain forwards the batch it holds
ConsumerForward(c) ==
    /\ c_pc[c] = "returned"
    /\ c_pc' = [c_pc EXCEPT ![c] = "idle"]
    /\ c_et' = [c_et EXCEPT ![c] = "none"]
    /\ c_events' = [c_events EXCEPT ![c] = <<>>]
    /\ b_last' = Record(NoCall)
    /\ UNCHANGED <<queues, broker_up, cfg_batch, cfg_max_length, next_id,
                   p_pc, p_et, c_iter, c_unacked, c_before, ret_count, foreign,
                   truncVars, apiVars, attVars, capVars>>

\* The caller of the drain fails before forwarding the batch it holds
ConsumerFail(c) ==
    /\ c_pc[c] = "returned"
    /\ c_pc' = [c_pc EXCEPT ![c] = "idle"]
    /\ c_et' = [c_et EXCEPT ![c] = "none"]
    /\ c_events' = [c_events EXCEPT ![c] = <<>>]
    /\ b_last' = Record(NoCall)
    /\ UNCHANGED <<queues, broker_up, cfg_batch, cfg_max_length, next_id,
                   p_pc, p_et, c_iter, c_unacked, c_before, ret_count, foreign,
                   truncVars, apiVars, attVars, capVars>>

\* observability_buffer_size_in_batches: one read of the depth
SizeInBatches(event_type, broker) ==
    /\ \E r \in {observability_buffer_size_in_batches(queues, broker,
                      cfg_batch, cfg_max_length, event_type)} :
           b_last' = Record([NoCall EXCEPT
                        !.op = "size", !.arg = event_type, !.status = r.status,
                        !.value = r.value, !.before = queues,
                        !.broker = broker, !.conn = r.conn])
    /\ UNCHANGED <<queues, broker_up, cfg_batch, cfg_max_length, next_id,
                   truncVars, apiVars, attVars, concVars, capVars>>

\* The broker becomes unreachable or reachable again
BrokerFlip ==
    /\ broker_up' = ~broker_up
    /\ b_last' = Record(NoCall)
    /\ UNCHANGED <<queues, cfg_batch, cfg_max_length, next_id,
                   truncVars, apiVars, attVars, concVars, capVars>>

\* ------------------------------------------------------------------
\* Specification of the buffer handlers called one at a time by one caller:
\* a call begins when no other call is in progress; the broker may fail
\* between two steps of a call
\* ------------------------------------------------------------------
InitBuffer ==
    /\ queues = EmptyQueues
    /\ broker_up = TRUE
    /\ cfg_batch \in -1..MaxBatch
    /\ cfg_max_length \in -1..MaxQueue
    /\ next_id = 1
    /\ b_last = NoCall
    /\ IdleTrunc /\ IdleApi /\ IdleAtt /\ IdleConc /\ IdleCap

NoCallInProgress ==
    /\ \A p \in Producers : p_pc[p] = "idle"
    /\ \A c \in Consumers : c_pc[c] = "idle"

NextBuffer ==
    \/ \E e \in EventTypes, b \in BrokerStates(broker_up) :
          NoCallInProgress /\ PutCheck(1, e, b)
    \/ \E b \in BrokerStates(broker_up) : PutEnqueue(1, b)
    \/ \E e \in EventTypes, b \in BrokerStates(broker_up) :
          NoCallInProgress /\ DrainBegin(1, e, b)
    \/ \E b \in BrokerStates(broker_up) : DrainGet(1, b)
    \/ ConsumerForward(1)
    \/ \E e \in EventTypes, b \in BrokerStates(broker_up) :
          NoCallInProgress /\ SizeInBatches(e, b)
    \/ BrokerFlip

SpecBuffer == InitBuffer /\ [][NextBuffer]_vars

\* ------------------------------------------------------------------
\* Specification of concurrent producers and drains: the steps of the
\* calls of several producers and consumers interleave and the broker may
\* fail any of them; no record of the calls is kept
\* ------------------------------------------------------------------
InitConc ==
    /\ queues = EmptyQueues
    /\ broker_up = TRUE
    /\ cfg_batch \in 1..MaxBatch
    /\ cfg_max_length \in 1..MaxQueue
    /\ next_id = 1
    /\ b_last = NotRecorded
    /\ IdleConc
    /\ IdleTrunc /\ IdleApi /\ IdleAtt /\ IdleCap

NextConc ==
    \/ \E p \in Producers, e \in OBSERVABILITY_EVENTS, b \in BrokerStates(broker_up) :
          PutCheck(p, e, b)
    \/ \E p \in Producers, b \in BrokerStates(broker_up) : PutEnqueue(p, b)
    \/ \E c \in Consumers, e \in OBSERVABILITY_EVENTS, b \in BrokerStates(broker_up) :
          DrainBegin(c, e, b)
    \/ \E c \in Consumers, b \in BrokerStates(broker_up) : DrainGet(c, b)
    \/ \E c \in Consumers : ConsumerForward(c)
    \/ \E c \in Consumers : ConsumerFail(c)
    \/ BrokerFlip

SpecConc == InitConc /\ [][NextConc]_vars

\* ------------------------------------------------------------------
\* Specification of the capture scopes of one execution context
\* ------------------------------------------------------------------
PayloadSizeChoices == {ApiBaseLen - 1, ApiBaseLen + 100, 1000}

InitCapture ==
    /\ set_active \in BOOLEAN
    /\ set_report_all \in BOOLEAN
    /\ set_max_payload \in PayloadSizeChoices
    /\ webhooks \in SUBSET OBSERVABILITY_EVENTS
    /\ api_var = NoApiCall
    /\ gql_var = NoOperation
    /\ r_pc = "out" /\ g_pc = "out"
    /\ r_req = NoRequest
    /\ next_req = 1 /\ next_op = 1
    /\ g_done = <<>>
    /\ cap_last = NoStep
    /\ queues = EmptyQueues
    /\ broker_up = TRUE
    /\ cfg_batch = MaxBatch
    /\ cfg_max_length = 1
    /\ next_id = 1
    /\ b_last = NoCall
    /\ IdleTrunc /\ IdleApi /\ IdleAtt /\ IdleConc

\* A capture function call is in progress: api_call_context has cleared the
\* context variable and goes on to observability_api_call(context), or a
\* call waits at self.put(); the execution context does nothing else until
\* the call returns
InCall == cap_last.op \in {"exit", "put"}

\* The step of a capture function call up to self.put(), with outcome r:
\* the call ended with status r.status and the wrapper around it, if any,
\* returns the response, or the call waits at put().  broker is recorded
\* for the calls that asked for a connection.
CaptureCall(step, r, broker) ==
    [step EXCEPT !.op = IF r.status = "put" THEN "put" ELSE step.call,
                 !.status = r.status, !.before = queues,
                 !.broker = IF r.conn = NoConnection THEN "up" ELSE broker,
                 !.built = r.built, !.attempted = r.attempted,
                 !.raised = r.raised, !.conn = r.conn,
                 !.event_type = r.event_type, !.event = r.event,
                 !.returned = IF step.in_request /\ r.status # "put" /\ r.raised = "none"
                              THEN step.record.response.v
                              ELSE NoResponse]

\* api_call_context up to the yield, entered by api_call_dispatch_wrapper
ApiEnter(app) ==
    /\ ~InCall
    /\ r_pc = "out"
    /\ g_pc = "out"
    /\ next_req <= MaxRequests
    /\ api_var' = IF api_var.some THEN api_var ELSE [some |-> TRUE, v |-> NewApiCallResponse]
    /\ r_pc' = "in"
    /\ r_req' = [id |-> next_req, app |-> app]
    /\ next_req' = next_req + 1
    /\ g_done' = <<>>
    /\ cap_last' = NoStep
    /\ UNCHANGED <<set_active, set_report_all, set_max_payload, webhooks, gql_var, g_pc,
                   next_op, truncVars, apiVars, attVars, bufVars, concVars>>

\* gql_operation_context up to the yield, entered by api_call_get_response_wrapper
GqlEnter ==
    /\ ~InCall
    /\ g_pc = "out"
    /\ next_op <= MaxOpScopes
    /\ gql_var' = IF gql_var.some THEN gql_var ELSE [some |-> TRUE, v |-> NewGQLOperationResult]
    /\ g_pc' = "in"
    /\ next_op' = next_op + 1
    /\ cap_last' = NoStep
    /\ UNCHANGED <<set_active, set_report_all, set_max_payload, webhooks, api_var, r_pc,
                   r_req, next_req, g_done, truncVars, apiVars, attVars, bufVars, concVars>>

\* The name and the document that the operation scope numbered k sets: the
\* document is the text {a<k>}, one anonymous query
OperationName(k) == <<97, 48 + k>>
OperationDocument(k) ==
    Document(<<123, 97, 48 + k, 125>>, <<OperationDefinition(None, "query")>>)

\* set_gql_operation(query=.., name=..) called while the operation executes
SetGqlOperation(with_query, with_name) ==
    /\ g_pc = "in"
    /\ with_query \/ with_name
    /\ gql_var' =
         IF gql_var.some
         THEN [gql_var EXCEPT
                 !.v.query = IF with_query THEN Some(OperationDocument(next_op - 1)) ELSE @,
                 !.v.name = IF with_name THEN Some(OperationName(next_op - 1)) ELSE @]
         ELSE gql_var
    /\ cap_last' = NoStep
    /\ UNCHANGED <<set_active, set_report_all, set_max_payload, webhooks, api_var, r_pc, g_pc,
                   r_req, next_req, next_op, g_done,
                   truncVars, apiVars, attVars, bufVars, concVars>>

\* The wrapped get_response returns: context.result is set, the scope exits,
\* the context variable is cleared and the record is appended to the
\* ApiCallResponse found in _API_CALL_CONTEXT
GqlReturn(result) ==
    /\ g_pc = "in"
    /\ LET context == [gql_var.v EXCEPT !.result = result]
       IN  /\ api_var' = IF api_var.some
                         THEN [api_var EXCEPT !.v.queries = Append(@, context)]
                         ELSE api_var
           /\ g_done' = IF r_pc = "in" THEN Append(g_done, context) ELSE g_done
    /\ gql_var' = NoOperation
    /\ g_pc' = "out"
    /\ cap_last' = [NoStep EXCEPT !.op = "gql_exit", !.in_request = (r_pc = "in"),
                                  !.appended = api_var.some]
    /\ UNCHANGED <<set_active, set_report_all, set_max_payload, webhooks, r_pc,
                   r_req, next_req, next_op, truncVars, apiVars, attVars, bufVars, concVars>>

\* The body of gql_operation_context raises: the generator ends at the yield
GqlRaise ==
    /\ g_pc = "in"
    /\ g_pc' = "out"
    /\ cap_last' = NoStep
    /\ UNCHANGED <<set_active, set_report_all, set_max_payload, webhooks, api_var, gql_var,
                   r_pc, r_req, next_req, next_op, g_done,
                   truncVars, apiVars, attVars, bufVars, concVars>>

\* dispatch returns: the wrapper sets request and response of the context,
\* the body of the scope ends and api_call_context clears the context
\* variable; observability_api_call(context) is the next step
ApiExit ==
    /\ r_pc = "in"
    /\ g_pc = "out"
    /\ cap_last' = [NoStep EXCEPT
                      !.op = "exit", !.call = "api_call", !.request = r_req.id,
                      !.n = Len(g_done), !.done = g_done, !.in_request = TRUE,
                      !.record = [api_var.v EXCEPT
                                    !.request = [some |-> TRUE, v |-> r_req],
                                    !.response = [some |-> TRUE, v |-> [id |-> r_req.id]]]]
    /\ api_var' = NoApiCall
    /\ r_pc' = "out"
    /\ UNCHANGED <<set_active, set_report_all, set_max_payload, webhooks, gql_var, g_pc,
                   r_req, next_req, next_op, g_done, bufVars,
                   truncVars, apiVars, attVars, concVars>>

\* observability_api_call(context) at the exit of api_call_context, up to
\* self.put()
ApiExitCall(broker) ==
    /\ cap_last.op = "exit"
    /\ \E r \in {observability_api_call(cap_last.record, set_active, set_report_all,
                                        webhooks, set_max_payload, queues, broker,
                                        cfg_batch, cfg_max_length)} :
           cap_last' = CaptureCall(cap_last, r, broker)
    /\ UNCHANGED <<set_active, set_report_all, set_max_payload, webhooks, api_var, gql_var,
                   r_pc, g_pc, r_req, next_req, next_op, g_done, bufVars,
                   truncVars, apiVars, attVars, concVars>>

\* self.put(...) of put_event in the capture function call that waits at
\* put(), and the exit of the scopes: the message is published, or the
\* broker fails the put, nothing is published and the exception ends as a
\* log line; the wrapper around the call, if any, returns the response
CapturePut(broker) ==
    /\ cap_last.op = "put"
    /\ \E conn \in {observability_connection("up", BodyFault(broker))} :
           /\ queues' = IF conn.status = Ok
                        THEN [queues EXCEPT ![queue_name(cap_last.event_type)] =
                                 Append(@, Message(cap_last.event))]
                        ELSE queues
           /\ cap_last' = [cap_last EXCEPT
                             !.op = cap_last.call, !.status = conn.status,
                             !.broker = broker, !.conn = conn,
                             !.raised = Propagated(conn.status),
                             !.returned = IF cap_last.in_request
                                             /\ Propagated(conn.status) = "none"
                                          THEN cap_last.record.response.v
                                          ELSE NoResponse]
    /\ UNCHANGED <<set_active, set_report_all, set_max_payload, webhooks, api_var, gql_var,
                   r_pc, g_pc, r_req, next_req, next_op, g_done,
                   broker_up, cfg_batch, cfg_max_length, next_id, b_last,
                   truncVars, apiVars, attVars, concVars>>

\* dispatch raises: the generator of api_call_context ends at the yield
ApiRaise ==
    /\ r_pc = "in"
    /\ g_pc = "out"
    /\ r_pc' = "out"
    /\ cap_last' = NoStep
    /\ UNCHANGED <<set_active, set_report_all, set_max_payload, webhooks, api_var, gql_var,
                   g_pc, r_req, next_req, next_op, g_done,
                   truncVars, apiVars, attVars, bufVars, concVars>>

\* observability_event_delivery_attempt called after a delivery attempt (by
\* the delivery task, between the requests of this execution context), up
\* to self.put()
DeliveryAttempt(event_type, response, payload, broker) ==
    /\ ~InCall
    /\ r_pc = "out"
    /\ g_pc = "out"
    /\ \E r \in {observability_event_delivery_attempt(event_type, response, payload,
                    webhooks, set_max_payload, queues, broker,
                    cfg_batch, cfg_max_length)} :
           cap_last' = CaptureCall([NoStep EXCEPT !.call = "attempt", !.arg = event_type],
                                   r, broker)
    /\ UNCHANGED <<set_active, set_report_all, set_max_payload, webhooks, api_var, gql_var,
                   r_pc, g_pc, r_req, next_req, next_op, g_done, bufVars,
                   truncVars, apiVars, attVars, concVars>>

\* A response that fits no small budget, and one with a lone surrogate
AttemptResponses == {<<10, 97, 97>>, <<97, 55296>>}
AttemptPayloads == {None, Some(<<97>>)}

NextCapture ==
    \/ \E app \in BOOLEAN : ApiEnter(app)
    \/ GqlEnter
    \/ \E n \in BOOLEAN : SetGqlOperation(TRUE, n)
    \/ GqlReturn([some |-> TRUE, v |-> "1"])
    \/ GqlRaise
    \/ ApiExit
    \/ \E b \in BrokerStates(broker_up) : ApiExitCall(b)
    \/ \E b \in BrokerStates(broker_up) : CapturePut(b)
    \/ ApiRaise
    \/ \E e \in EventTypes, body \in AttemptResponses, pl \in AttemptPayloads,
          b \in BrokerStates(broker_up) :
          DeliveryAttempt(e, body, pl, b)

SpecCapture == InitCapture /\ [][NextCapture]_vars

\* ------------------------------------------------------------------
\* Specification of the capture functions called with any record and of
\* the request scope of the dispatch wrapper (entered, then left by the
\* return or by an exception of dispatch), under any settings, webhooks
\* and broker faults
\* ------------------------------------------------------------------
InitBoundary ==
    /\ set_active \in BOOLEAN
    /\ set_report_all \in BOOLEAN
    /\ set_max_payload \in PayloadSizeChoices
    /\ webhooks \in SUBSET OBSERVABILITY_EVENTS
    /\ api_var = NoApiCall
    /\ gql_var = NoOperation
    /\ r_pc = "out" /\ g_pc = "out"
    /\ r_req = NoRequest
    /\ next_req = 1 /\ next_op = 1
    /\ g_done = <<>>
    /\ cap_last = NoStep
    /\ queues = EmptyQueues
    /\ broker_up = TRUE
    /\ cfg_batch = MaxBatch
    /\ cfg_max_length = 1
    /\ next_id = 1
    /\ b_last = NoCall
    /\ IdleTrunc /\ IdleApi /\ IdleAtt /\ IdleConc

\* The records observability_api_call can be called with: request and
\* response are None or set, the request is or is not made by an app, no or
\* one operation was captured
ApiCallRecords(id) ==
    { ApiCallResponse(request, response, queries) :
        request \in {[some |-> FALSE, v |-> NoRequest]}
                    \cup {[some |-> TRUE, v |-> [id |-> id, app |-> a]] : a \in BOOLEAN},
        response \in {[some |-> FALSE, v |-> NoResponse], [some |-> TRUE, v |-> [id |-> id]]},
        queries \in {<<>>, <<GQLOperationResult(Some(OperationName(1)),
                                                 Some(OperationDocument(1)),
                                                 [some |-> TRUE, v |-> "1"])>>} }

\* observability_api_call(api_call), called between the request scopes of
\* this execution context, up to self.put()
ObservabilityApiCall(api_call, broker) ==
    /\ ~InCall
    /\ r_pc = "out"
    /\ g_pc = "out"
    /\ next_req <= MaxRequests
    /\ \E r \in {observability_api_call(api_call, set_active, set_report_all, webhooks,
                                        set_max_payload, queues, broker,
                                        cfg_batch, cfg_max_length)} :
           cap_last' = CaptureCall([NoStep EXCEPT !.call = "api_call", !.request = next_req,
                                                  !.n = Len(api_call.queries),
                                                  !.record = api_call],
                                   r, broker)
    /\ next_req' = next_req + 1
    /\ UNCHANGED <<set_active, set_report_all, set_max_payload, webhooks, api_var, gql_var,
                   r_pc, g_pc, r_req, next_op, g_done, bufVars,
                   truncVars, apiVars, attVars, concVars>>

NextBoundary ==
    \/ \E api_call \in ApiCallRecords(next_req), b \in BrokerStates(broker_up) :
          ObservabilityApiCall(api_call, b)
    \/ \E app \in BOOLEAN : ApiEnter(app)
    \/ ApiExit
    \/ \E b \in BrokerStates(broker_up) : ApiExitCall(b)
    \/ \E b \in BrokerStates(broker_up) : CapturePut(b)
    \/ ApiRaise
    \/ \E e \in EventTypes, body \in AttemptResponses, pl \in AttemptPayloads,
          b \in BrokerStates(broker_up) :
          DeliveryAttempt(e, body, pl, b)
    \/ BrokerFlip

SpecBoundary == InitBoundary /\ [][NextBoundary]_vars

\* ------------------------------------------------------------------
\* Claims
\* ------------------------------------------------------------------

\* C1: the value returned by truncate(s, L) has byte_size <= max(L, 0), for
\* every string, every limit and both escaping modes.
C1_ByteSizeWithinLimit ==
    t_pc = "done" => byte_size(t_out) <= Max(t_limit, 0)

\* C2: whenever generate_api_call_payload returns a payload, the length of
\* the returned JSON string is at most bytes_limit.
C2_ApiPayloadWithinLimit ==
    (a_pc = "done" /\ a_out.status = Ok) => a_out.len <= a_limit

\* C3: whenever generate_truncated_event_delivery_attempt_payload returns a
\* payload, the length of the returned JSON string is at most bytes_limit.
C3_AttemptPayloadWithinLimit ==
    (d_pc = "done" /\ d_out.status = Ok) => d_out.len <= d_limit

\* Depth of the queue of an event type
Depth(event_type) == Len(queues[queue_name(event_type)])

\* C4: with put_event and get_events executed one at a time from an empty
\* queue, the depth of a queue never exceeds max_length.  (It does after a
\* put_event whose depth query the broker answered with a ChannelError at a
\* queue that holds max_length events: qsize returns 0 and put() publishes.)
C4_DepthWithinMaxLength ==
    \A e \in OBSERVABILITY_EVENTS : Depth(e) <= Max(0, cfg_max_length)

AllProducersIdle == \A p \in Producers : p_pc[p] = "idle"

\* C5: once all concurrent producers have finished, the queue holds at most
\* max_length events.  (Two producers that both pass the test of len(self)
\* before either publishes leave max_length + 1 events, and nothing removes
\* the excess.)
C5_AtRestWithinMaxLength ==
    AllProducersIdle => \A e \in OBSERVABILITY_EVENTS : Depth(e) <= Max(0, cfg_max_length)

\* C6: put_event at depth >= max_length raises FullObservabilityEventsBuffer
\* carrying the event type of the buffer and leaves the queues unchanged
\* (for the calls that no exception of the broker ends).
C6_FullPutRejected ==
    (/\ b_last.op = "put"
     /\ b_last.status \in {Ok, FullObservabilityEventsBuffer}
     /\ Len(b_last.before[queue_name(b_last.arg)]) >= Max(0, cfg_max_length))
    => (/\ b_last.status = FullObservabilityEventsBuffer
        /\ b_last.event_type = b_last.arg
        /\ queues = b_last.before)

\* C7: every event is returned by at most one get_events call, and every
\* event a drain returns was put into the queue of the drained event type.
C7_ReturnedAtMostOnce ==
    /\ \A i \in EventIds : ret_count[i] <= 1
    /\ ~foreign
    /\ \A i \in EventIds : ret_count[i] > 0 => i < next_id

\* Witness of C7: two drains of one event type ran concurrently and each
\* returned an event, and an earlier batch has already left its consumer
C7_Witness ==
    /\ \E c, d \in Consumers :
          /\ c # d
          /\ c_pc[c] = "returned" /\ c_pc[d] = "returned"
          /\ c_et[c] = c_et[d]
          /\ c_events[c] # <<>> /\ c_events[d] # <<>>
    /\ Cardinality({i \in EventIds : ret_count[i] = 1}) >= 3

RECURSIVE DecodeAll(_)
DecodeAll(q) == IF q = <<>> THEN <<>> ELSE <<decode(Head(q))>> \o DecodeAll(Tail(q))

\* C8: get_events on a queue of depth d returns the min(batch, d) oldest
\* events in put order and removes exactly those; it stops at the first
\* get() that finds the queue empty, and returns [] from an empty queue.
C8_DrainOldestBatch ==
    (b_last.op = "get" /\ b_last.status = Ok) =>
        LET name  == queue_name(b_last.arg)
            old   == b_last.before[name]
            batch == Max(0, cfg_batch)
            n     == Min(batch, Len(old))
        IN  /\ b_last.events = DecodeAll(SubSeq(old, 1, n))
            /\ queues[name] = SubSeq(old, n + 1, Len(old))
            /\ \A m \in QueueNames \ {name} : queues[m] = b_last.before[m]
            /\ b_last.receives = n + (IF Len(old) < batch THEN 1 ELSE 0)

\* Witness of C8: a drain met fewer events than its batch and stopped early,
\* returning the events it found
C8_Witness ==
    /\ b_last.op = "get" /\ b_last.status = Ok
    /\ Len(b_last.events) = 1
    /\ cfg_batch = 2
    /\ b_last.receives = 2

\* C9: a delivery attempt of a non-observability event, with a consumer
\* registered for delivery-attempt events, a payload that fits, a reachable
\* broker and a queue below capacity, enqueues exactly one delivery-attempt
\* payload in the queue of the delivery-attempt event type.
C9_AttemptEnqueued ==
    (/\ cap_last.op = "attempt"
     /\ cap_last.arg \notin OBSERVABILITY_EVENTS
     /\ OBSERVABILITY_EVENT_DELIVERY_ATTEMPTS \in webhooks
     /\ set_max_payload >= AttemptBaseLen
     /\ broker_up
     /\ Len(cap_last.before[queue_name(OBSERVABILITY_EVENT_DELIVERY_ATTEMPTS)])
            < Max(0, cfg_max_length))
    => LET name == queue_name(OBSERVABILITY_EVENT_DELIVERY_ATTEMPTS)
       IN  /\ Len(queues[name]) = Len(cap_last.before[name]) + 1
           /\ SubSeq(queues[name], 1, Len(cap_last.before[name])) = cap_last.before[name]
           /\ decode(queues[name][Len(queues[name])]).kind = "attempt"

\* C10: a request scope inside which n operation scopes completed, with
\* reporting enabled, the call eligible and a consumer registered (and the
\* payload fitting, the broker reachable and the queue below capacity), ends
\* in exactly one payload enqueued in the API-call queue whose count is n
\* and whose operations are the n records in exit order; an operation scope
\* that exits while no request scope is active is appended nowhere.
C10_OneRequestOnePayload ==
    /\ (/\ cap_last.op = "api_call"
        /\ set_active
        /\ (set_report_all \/ ~r_req.app)
        /\ OBSERVABILITY_API_CALLS \in webhooks
        /\ set_max_payload >= ApiEnvelopeLen(r_req)
                              + (cap_last.n + MaxOpScopes) * GQL_OPERATION_PLACEHOLDER_SIZE
        /\ broker_up
        /\ Len(cap_last.before[queue_name(OBSERVABILITY_API_CALLS)]) < Max(0, cfg_max_length))
       => LET name == queue_name(OBSERVABILITY_API_CALLS)
              old  == cap_last.before[name]
          IN  /\ Len(queues[name]) = Len(old) + 1
              /\ SubSeq(queues[name], 1, Len(old)) = old
              /\ LET e == decode(queues[name][Len(queues[name])])
                 IN  /\ e.kind = "api_call"
                     /\ e.request = cap_last.request
                     /\ e.count = cap_last.n
                     /\ e.operations =
                          serialize_gql_operation_results(
                              cap_last.done,
                              set_max_payload - ApiEnvelopeLen(r_req)).payloads
    /\ (cap_last.op = "gql_exit" /\ ~cap_last.in_request) => ~cap_last.appended

\* ------------------------------------------------------------------
\* Gating of observability_api_call
\* ------------------------------------------------------------------
\* C11 as stated: observability_api_call attempts an enqueue (calls the
\* buffer put) if and only if reporting is enabled, the record has a request
\* and a response, the call is eligible and a consumer is registered; with
\* reporting disabled nothing is attempted, and when nothing is attempted the
\* queues are unchanged.
C11_EnqueueIffGated ==
    cap_last.op = "api_call" =>
        /\ cap_last.attempted
             <=> (/\ set_active
                  /\ cap_last.record.request.some
                  /\ cap_last.record.response.some
                  /\ (~cap_last.record.request.v.app \/ set_report_all)
                  /\ OBSERVABILITY_API_CALLS \in webhooks)
        /\ ~set_active => ~cap_last.attempted
        /\ ~cap_last.attempted => queues = cap_last.before

\* C11 amended: the enqueue is attempted if and only if the four conditions
\* hold and the serialized envelope of the record fits the payload limit
\* (otherwise payload construction raises before the buffer is called); with
\* reporting disabled nothing is attempted, and when nothing is attempted the
\* queues are unchanged.
C11_EnqueueIffGatedAndFits ==
    cap_last.op = "api_call" =>
        /\ cap_last.attempted
             <=> (/\ set_active
                  /\ cap_last.record.request.some
                  /\ cap_last.record.response.some
                  /\ (~cap_last.record.request.v.app \/ set_report_all)
                  /\ OBSERVABILITY_API_CALLS \in webhooks
                  /\ ApiEnvelopeLen(cap_last.record.request.v) <= set_max_payload)
        /\ ~set_active => ~cap_last.attempted
        /\ ~cap_last.attempted => queues = cap_last.before

\* An eligible call by an app, reported because REPORT_ALL is set, whose
\* event reached the queue
C11_Witness ==
    /\ cap_last.op = "api_call"
    /\ set_report_all
    /\ cap_last.record.request.v.app
    /\ cap_last.attempted
    /\ cap_last.status = Ok
    /\ Len(queues[queue_name(OBSERVABILITY_API_CALLS)])
         = Len(cap_last.before[queue_name(OBSERVABILITY_API_CALLS)]) + 1

\* ------------------------------------------------------------------
\* Failures of payload construction and of the enqueue
\* ------------------------------------------------------------------
\* C12: no failure of payload construction or of the enqueue leaves
\* observability_api_call or observability_event_delivery_attempt; the
\* dispatch wrapper returns the response that dispatch produced; the event of
\* a failed call is dropped and the queues are as they were before the call.
C12_NoFailurePropagates ==
    cap_last.op \in {"api_call", "attempt"} =>
        /\ cap_last.raised = "none"
        /\ (cap_last.op = "api_call" /\ cap_last.in_request) =>
               cap_last.returned = cap_last.record.response.v
        /\ (cap_last.built /\ cap_last.status # Ok) => queues = cap_last.before

\* A wrapped dispatch whose enqueue ended with an exception that is neither
\* a ValueError nor an ObservabilityError
C12_Witness ==
    /\ cap_last.op = "api_call"
    /\ cap_last.in_request
    /\ cap_last.attempted
    /\ cap_last.status = "Exception"
    /\ cap_last.returned = [id |-> cap_last.request]

\* ------------------------------------------------------------------
\* Connection scope
\* ------------------------------------------------------------------
\* C13: in every put, drain and size call, the connection acquired from the
\* pool is released exactly once when the scope exits, whatever the body does,
\* and release is applied to no connection other than an acquired one.
C13_AcquireReleasePaired ==
    b_last.op # "none" =>
        /\ b_last.conn.released = b_last.conn.acquired
        /\ b_last.conn.stray = 0

\* ------------------------------------------------------------------
\* Envelope longer than the limit
\* ------------------------------------------------------------------
\* C14: when the serialized envelope alone is longer than the limit, both
\* payload generators raise ValueError and return no payload, and nothing is
\* enqueued for the event; the ValueError of a payload too big is raised in
\* no other case (for the delivery attempt there is no degraded payload: it
\* raises or returns the whole payload).  The ValueError of an envelope too
\* long is "payload_too_big"; for a response with a lone surrogate the
\* delivery-attempt generator raises UnicodeEncodeError, a ValueError, before
\* it measures the envelope.
C14_EnvelopeTooBigRaises ==
    (cap_last.op \in {"api_call", "attempt"} /\ cap_last.built) =>
        LET too_big == IF cap_last.op = "attempt"
                       THEN AttemptBaseLen > set_max_payload
                       ELSE ApiEnvelopeLen(cap_last.record.request.v) > set_max_payload
        IN  /\ too_big => cap_last.status \in {"payload_too_big", "UnicodeEncodeError"}
            /\ cap_last.status = "payload_too_big" => too_big
            /\ cap_last.status = "UnicodeEncodeError" => cap_last.op = "attempt"
            /\ too_big => (~cap_last.attempted /\ queues = cap_last.before)

\* An API call whose envelope is one byte longer than the limit
C14_Witness ==
    /\ cap_last.op = "api_call"
    /\ cap_last.built
    /\ ApiEnvelopeLen(cap_last.record.request.v) = set_max_payload + 1
    /\ cap_last.status = "payload_too_big"
    /\ ~cap_last.attempted

\* ------------------------------------------------------------------
\* Operations allocator
\* ------------------------------------------------------------------
\* C15: when the envelope fits and the budget left for the operations is
\* smaller than one placeholder per captured operation,
\* generate_api_call_payload returns the envelope with an empty operations
\* list and a count equal to the number of captured operations.
C15_AllocatorFailureEmptiesOperations ==
    (/\ a_pc = "done"
     /\ a_limit >= a_base
     /\ a_limit - a_base < Len(a_ops) * GQL_OPERATION_PLACEHOLDER_SIZE)
    => (/\ a_out.status = Ok
        /\ a_out.operations = <<>>
        /\ a_out.count = Len(a_ops)
        /\ a_out.len = a_base)

\* Two captured operations and a budget one byte short of two placeholders
C15_Witness ==
    /\ a_pc = "done"
    /\ Len(a_ops) = 2
    /\ a_limit - a_base = 2 * GQL_OPERATION_PLACEHOLDER_SIZE - 1
    /\ a_out.status = Ok
    /\ a_out.operations = <<>>
    /\ a_out.count = 2

\* ------------------------------------------------------------------
\* Unsupported event types
\* ------------------------------------------------------------------
\* C16: the put, the drain and the size call for an event type outside the
\* observability event types raise ValueError, acquire no connection and
\* leave every queue unchanged.
C16_UnsupportedTypeRejectedFirst ==
    (b_last.op # "none" /\ b_last.arg \notin OBSERVABILITY_EVENTS) =>
        /\ b_last.status = ValueError
        /\ b_last.conn = [status |-> Ok, acquired |-> 0, released |-> 0, stray |-> 0]
        /\ b_last.events = <<>>
        /\ queues = b_last.before

\* A size call for an ordinary webhook event type while the pool has no free
\* connection: the ValueError comes first
C16_Witness ==
    /\ b_last.op = "size"
    /\ b_last.arg = ORDER_CREATED
    /\ b_last.broker = "limit_exceeded"
    /\ b_last.status = ValueError
    /\ b_last.conn.acquired = 0

\* ------------------------------------------------------------------
\* truncate: texts that fit, byte_size, prefixes
\* ------------------------------------------------------------------
\* C17: for every string, limit and escaping mode, when the JSON-escaped
\* length of the string is at most the limit, truncate returns the whole
\* string with truncated false.  (A string with a lone surrogate has no
\* escaped length in bytes without ensure_ascii: its encoding raises.)
C17_FittingTextUntouched ==
    (/\ t_pc = "done"
     /\ t_ascii \/ \A i \in 1..Len(t_s) : Utf8Len(t_s[i]) # UnicodeEncodeError
     /\ JsonEscapedLen(t_s, t_ascii) <= t_limit) =>
        (t_out.text = t_s /\ ~t_out.truncated)

\* A string with an escaped character whose escaped length is exactly the limit
C17_Witness ==
    /\ t_pc = "done"
    /\ Len(t_s) >= 2
    /\ \E i \in 1..Len(t_s) : EscapeAsciiMatch(t_s[i])
    /\ JsonEscapedLen(t_s, t_ascii) = t_limit
    /\ t_out.text = t_s
    /\ ~t_out.truncated

\* C18: byte_size of the value truncate returns is the number of bytes its
\* text occupies once JSON-escaped under the mode used.
C18_ByteSizeIsEscapedLength ==
    t_pc = "done" => byte_size(t_out) = JsonEscapedLen(t_out.text, t_ascii)

\* A truncated text that keeps a character above the BMP, in both modes of
\* which it counts for more than one byte
C18_Witness ==
    /\ t_pc = "done"
    /\ t_out.truncated
    /\ \E i \in 1..Len(t_out.text) : t_out.text[i] >= 65536
    /\ byte_size(t_out) > Len(t_out.text)

\* C19: the text truncate returns is a prefix of the input, and truncated is
\* true exactly when the text is strictly shorter than the input.  (truncate
\* returns for every input, but for a lone surrogate met without
\* ensure_ascii, whose encoding raises.)
C19_PrefixAndFlag ==
    t_pc = "done" =>
        /\ Len(t_out.text) <= Len(t_s)
        /\ t_out.text = SubSeq(t_s, 1, Len(t_out.text))
        /\ t_out.truncated <=> (Len(t_out.text) < Len(t_s))

\* A text cut before an escaped character that does not fit, shorter than
\* the limit would allow by count of characters
C19_Witness ==
    /\ t_pc = "done"
    /\ t_out.truncated
    /\ Len(t_out.text) > 0
    /\ Len(t_out.text) < Len(t_s)
    /\ Len(t_out.text) < t_limit

\* ------------------------------------------------------------------
\* size_in_batches
\* ------------------------------------------------------------------
\* C20: for every queue depth and every batch size the buffer can be
\* constructed with, size_in_batches returns the ceiling of depth / batch:
\* the least number v of batches with v * batch >= depth.
C20_SizeIsCeiling ==
    (b_last.op = "size" /\ b_last.arg \in OBSERVABILITY_EVENTS /\ b_last.broker = "up") =>
        LET depth == Len(b_last.before[queue_name(b_last.arg)])
            batch == Max(0, cfg_batch)
        IN  /\ b_last.status = Ok
            /\ b_last.value * batch >= depth
            /\ (b_last.value - 1) * batch < depth

\* ------------------------------------------------------------------
\* Isolation of the capture scopes
\* ------------------------------------------------------------------
\* C21: the record handed to observability_api_call holds exactly the
\* operation records whose scopes completed within that request scope, and
\* inside an operation scope the record holds no name and no query other
\* than those set during that scope, also after an earlier scope was left
\* by an exception.
C21_ScopesIsolated ==
    /\ cap_last.op = "api_call" => cap_last.record.queries = cap_last.done
    /\ (g_pc = "in" /\ gql_var.some) =>
           /\ gql_var.v.name \in {None, Some(OperationName(next_op - 1))}
           /\ gql_var.v.query \in {NoDocument, Some(OperationDocument(next_op - 1))}

\* ------------------------------------------------------------------
\* truncate: longest fitting prefix
\* ------------------------------------------------------------------
\* C22: for a limit of at least 0, the text truncate returns is the longest
\* prefix of the input whose JSON-escaped length is at most the limit: the
\* returned prefix fits and no longer prefix fits (for the inputs that the
\* escaping mode can encode).
C22_LongestFittingPrefix ==
    (/\ t_pc = "done"
     /\ t_limit >= 0
     /\ t_ascii \/ \A i \in 1..Len(t_s) : Utf8Len(t_s[i]) # UnicodeEncodeError) =>
        /\ t_out.text = SubSeq(t_s, 1, Len(t_out.text))
        /\ JsonEscapedLen(t_out.text, t_ascii) <= t_limit
        /\ \A n \in (Len(t_out.text) + 1)..Len(t_s) :
               JsonEscapedLen(SubSeq(t_s, 1, n), t_ascii) > t_limit

\* ------------------------------------------------------------------
\* Budget of the operations
\* ------------------------------------------------------------------
\* C23: when the allocator's up-front check passes, the operations are
\* serialized in their order; operation i of n is offered the floor of the
\* remaining budget divided by n - i, and the remaining budget then
\* decreases by the bytes the operation consumed: its placeholder plus the
\* byte sizes of its name, query and result.
C23_BudgetShared ==
    (/\ a_pc = "done"
     /\ a_out.status = Ok
     /\ a_limit - a_base >= Len(a_ops) * GQL_OPERATION_PLACEHOLDER_SIZE)
    => LET n == Len(a_ops)
           consumed(p) ==
               GQL_OPERATION_PLACEHOLDER_SIZE
               + (IF p.name.some THEN byte_size(p.name.v) ELSE 0)
               + (IF p.query.some THEN byte_size(p.query.v) ELSE 0)
               + (IF p.result.some THEN byte_size(p.result.v) ELSE 0)
           remaining[i \in 0..n] ==
               IF i = 0 THEN a_limit - a_base
               ELSE remaining[i - 1] - consumed(a_out.operations[i])
       IN  /\ Len(a_out.operations) = n
           /\ \A i \in 1..n :
                  LET offered == remaining[i - 1] \div (n - i + 1)
                  IN  /\ offered >= GQL_OPERATION_PLACEHOLDER_SIZE
                      /\ a_out.operations[i]
                           = serialize_gql_operation_result(a_ops[i], offered).payload

\* ------------------------------------------------------------------
\* Shares of the fields of one operation
\* ------------------------------------------------------------------
\* C24: for an operation with a name, a query and a result, the budget left
\* after the placeholder is divided 1:3:2: truncate is called with 1/6 of
\* it for the name, with 3/6 of it for the query when the name used its
\* share, and with 2/6 of it for the result when name and query used theirs
\* (budgets that are multiples of 6, so that the shares are whole numbers).
C24_SharesOneThreeTwo ==
    (/\ a_pc = "done"
     /\ Len(a_ops) = 1
     /\ NameTruthy(a_ops[1]) /\ QueryTruthy(a_ops[1]) /\ ResultTruthy(a_ops[1])
     /\ a_limit - a_base >= GQL_OPERATION_PLACEHOLDER_SIZE
     /\ (a_limit - a_base - GQL_OPERATION_PLACEHOLDER_SIZE) % 6 = 0)
    => LET budget == a_limit - a_base - GQL_OPERATION_PLACEHOLDER_SIZE
           r == serialize_gql_operation_result(a_ops[1], a_limit - a_base)
           name_full == byte_size(r.payload.name.v) = budget \div 6
           query_full == byte_size(r.payload.query.v) = (3 * budget) \div 6
       IN  /\ r.limits[1] = budget \div 6
           /\ name_full => r.limits[2] = (3 * budget) \div 6
           /\ (name_full /\ query_full) => r.limits[3] = (2 * budget) \div 6

\* ------------------------------------------------------------------
\* No failure inside the allocator's loop
\* ------------------------------------------------------------------
\* C25: when the budget is at least one placeholder per operation, no
\* allocation inside the loop fails: the payload holds one operation payload
\* per captured operation, in order (the fields the operation has, each a
\* prefix of the operation's text).
C25_LoopNeverFails ==
    (/\ a_pc = "done"
     /\ a_limit - a_base >= Len(a_ops) * GQL_OPERATION_PLACEHOLDER_SIZE)
    => /\ a_out.status = Ok
       /\ Len(a_out.operations) = Len(a_ops)
       /\ \A i \in 1..Len(a_ops) :
              LET p == a_out.operations[i]
              IN  /\ p.name.some <=> NameTruthy(a_ops[i])
                  /\ p.query.some <=> QueryTruthy(a_ops[i])
                  /\ p.result.some <=> ResultTruthy(a_ops[i])
                  /\ p.name.some =>
                        p.name.v.text = SubSeq(a_ops[i].name.v, 1, Len(p.name.v.text))
                  /\ p.query.some =>
                        p.query.v.text = SubSeq(a_ops[i].query.v.document_string, 1,
                                                Len(p.query.v.text))

\* Two operations with a budget of exactly two placeholders, the first
\* without fields and the second with all three
C25_Witness ==
    /\ a_pc = "done"
    /\ Len(a_ops) = 2
    /\ a_limit - a_base = 2 * GQL_OPERATION_PLACEHOLDER_SIZE
    /\ ~NameTruthy(a_ops[1]) /\ NameTruthy(a_ops[2])
    /\ Len(a_out.operations) = 2
    /\ ~a_out.operations[1].name.some /\ a_out.operations[2].name.some

\* C26: with NumProducers producers running put_event concurrently on the
\* buffer of one event type, each with at most one put in flight, and any
\* number of concurrent drains, the depth of the queue never exceeds
\* max_length + NumProducers - 1, in any state, whether or not producers have
\* a put in flight.  (A put_event whose depth query the broker answers with
\* a ChannelError publishes at any depth: qsize returns 0.)
C26_DepthWithinOvershootAlways ==
    \A e \in OBSERVABILITY_EVENTS :
        Len(queues[queue_name(e)]) <=
            ObservabilityBuffer(e, cfg_batch, cfg_max_length).max_length + NumProducers - 1

\* C27: observability_event_delivery_attempt called for the delivery attempt
\* of an event whose type is one of the observability event types builds no
\* payload and enqueues nothing, whatever webhooks are registered: it calls
\* neither the payload generator nor the buffer, takes no connection, raises
\* nothing and leaves every queue as it was.
C27_NoFeedbackLoop ==
    (cap_last.op = "attempt" /\ cap_last.arg \in OBSERVABILITY_EVENTS)
    => (/\ ~cap_last.built
        /\ ~cap_last.attempted
        /\ cap_last.conn = NoConnection
        /\ cap_last.raised = "none"
        /\ queues = cap_last.before)

\* Witness of C27: the delivery attempt of an observability event was
\* reported while a webhook for delivery-attempt events is registered, the
\* payload would fit, the broker is up and the queue of that event type has
\* room, and nothing was built
C27_Witness ==
    /\ cap_last.op = "attempt"
    /\ cap_last.arg \in OBSERVABILITY_EVENTS
    /\ cap_last.status = "observability_event"
    /\ OBSERVABILITY_EVENT_DELIVERY_ATTEMPTS \in webhooks
    /\ set_max_payload >= AttemptBaseLen
    /\ broker_up
    /\ Len(cap_last.before[queue_name(cap_last.arg)]) < Max(0, cfg_max_length)

====
